---- MODULE Spec2Model ----
(***************************************************************************)
(* SecureVault backup decryption (src/decrypt_backup.py).                  *)
(*                                                                         *)
(* Bytes are integers 0..255 and byte strings are sequences of them.       *)
(* Text (str) is a sequence of Unicode code points.  Base64 text is a      *)
(* sequence of character codes: 0..63 is the index of a character of the   *)
(* standard alphabet (A-Z a-z 0-9 + /), BASE64_PAD is '=' and WHITESPACE   *)
(* is a newline, a character outside the alphabet.                         *)
(*                                                                         *)
(* PBKDF2-HMAC-SHA256 and the AES block permutation are library            *)
(* primitives; they are replaced by small keyed functions that keep what   *)
(* the program relies on: determinism, HMAC's zero-padding of the key,     *)
(* a block permutation inverted by the same key, CBC chaining over         *)
(* 16-byte blocks, and the error on unaligned data.                        *)
(***************************************************************************)
EXTENDS Integers, Sequences, FiniteSets, TLC

\* ------------------------------------------------------------ constants
KEY_LENGTH == 32
IV_LENGTH == 16
SALT_LENGTH == 32
ITERATION_COUNT == 100000
\* AES.block_size of the CBC cipher object
BLOCK_SIZE == 16
\* block size of the HMAC-SHA256 key schedule
HMAC_BLOCK == 64

BASE64_PAD == 64
WHITESPACE == 65

\* ------------------------------------------------------------ bounds
\* largest number of 16-byte blocks of a buffer that is encrypted
MaxBlocks == 2

\* ------------------------------------------------------------ helpers
Repeat(x, n) == [i \in 1..n |-> x]

Min(a, b) == IF a <= b THEN a ELSE b

\* Python's s[a:b] for 0 <= a, 0 <= b: out-of-range bounds are clamped
Slice(s, a, b) ==
    IF a >= Min(b, Len(s)) THEN <<>> ELSE SubSeq(s, a + 1, Min(b, Len(s)))

\* Python's s[a:]
SliceFrom(s, a) == Slice(s, a, Len(s))

Ok(v) == [ok |-> TRUE, val |-> v, err |-> "none"]
Raise(e) == [ok |-> FALSE, val |-> <<>>, err |-> e]

\* ------------------------------------------------------------ Base64
IsData(ch) == ch < 64

\* characters of the alphabet among s[1..i-1]
DataBefore(s, i) == Cardinality({j \in 1..(i - 1) : IsData(s[j])})

\* pad characters seen at position i since the last character of the alphabet
PadsUpTo(s, i) ==
    Cardinality({j \in 1..i :
        /\ s[j] = BASE64_PAD
        /\ \A m \in j..i : ~IsData(s[m])})

\* a pad at i completes the quad in progress: the scan ends there
PadEnds(s, i) ==
    /\ s[i] = BASE64_PAD
    /\ DataBefore(s, i) % 4 >= 2
    /\ (DataBefore(s, i) % 4) + PadsUpTo(s, i) >= 4

\* the bytes that the sextets d spell: three per full quad, one for two
\* leftover sextets, two for three
SextetsToBytes(d) ==
    LET rem == Len(d) % 4
        n == (Len(d) \div 4) * 3 + (IF rem >= 2 THEN rem - 1 ELSE 0)
    IN [j \in 1..n |->
          LET g == 4 * ((j - 1) \div 3)
              r == (j - 1) % 3
          IN IF r = 0 THEN d[g + 1] * 4 + (d[g + 2] \div 16)
             ELSE IF r = 1 THEN (d[g + 2] % 16) * 16 + (d[g + 3] \div 4)
             ELSE (d[g + 3] % 4) * 64 + d[g + 4]]

\* binascii.a2b_base64 in its default (non-strict) mode, as base64.b64decode
\* calls it: characters outside the alphabet are skipped, a complete pad
\* sequence ends the data, and characters left over in an unfinished quad
\* with no pad sequence raise binascii.Error.
b64decode(s) ==
    LET ends == {i \in 1..Len(s) : s[i] = BASE64_PAD /\ PadEnds(s, i)}
        stop == IF ends = {} THEN Len(s) + 1
                ELSE CHOOSE i \in ends : \A j \in ends : i <= j
        d == SelectSeq(SubSeq(s, 1, stop - 1), IsData)
    IN IF ends = {} /\ Len(d) % 4 # 0
       THEN Raise("binascii.Error")
       ELSE Ok(SextetsToBytes(d))

\* base64.b64encode of the producing side
b64encode(b) ==
    LET n == Len(b)
        At(i) == IF i > n THEN 0 ELSE b[i]
    IN [j \in 1..(4 * ((n + 2) \div 3)) |->
          LET g == 3 * ((j - 1) \div 4)
              r == (j - 1) % 4
          IN IF r = 0 THEN b[g + 1] \div 4
             ELSE IF r = 1 THEN (b[g + 1] % 4) * 16 + (At(g + 2) \div 16)
             ELSE IF r = 2
             THEN IF g + 2 > n THEN BASE64_PAD
                  ELSE (b[g + 2] % 16) * 4 + (At(g + 3) \div 64)
             ELSE IF g + 3 > n THEN BASE64_PAD ELSE b[g + 3] % 64]

\* ------------------------------------------------------------ UTF-8
IsCont(b) == b >= 128 /\ b <= 191

\* bytes.decode('utf-8'), strict: well-formed sequences only (no overlong
\* forms, no surrogates, nothing above U+10FFFF)
RECURSIVE utf8_decode_from(_, _, _)
utf8_decode_from(b, i, out) ==
    IF i > Len(b) THEN Ok(out)
    ELSE LET b1 == b[i]
             n == Len(b) - i
         IN
         IF b1 < 128 THEN utf8_decode_from(b, i + 1, Append(out, b1))
         ELSE IF b1 >= 194 /\ b1 <= 223
         THEN IF n >= 1 /\ IsCont(b[i + 1])
              THEN utf8_decode_from(b, i + 2,
                       Append(out, (b1 - 192) * 64 + (b[i + 1] - 128)))
              ELSE Raise("UnicodeDecodeError")
         ELSE IF b1 >= 224 /\ b1 <= 239
         THEN IF /\ n >= 2
                 /\ IsCont(b[i + 1])
                 /\ IsCont(b[i + 2])
                 /\ (b1 = 224 => b[i + 1] >= 160)
                 /\ (b1 = 237 => b[i + 1] <= 159)
              THEN utf8_decode_from(b, i + 3,
                       Append(out, (b1 - 224) * 4096 + (b[i + 1] - 128) * 64
                                   + (b[i + 2] - 128)))
              ELSE Raise("UnicodeDecodeError")
         ELSE IF b1 >= 240 /\ b1 <= 244
         THEN IF /\ n >= 3
                 /\ IsCont(b[i + 1])
                 /\ IsCont(b[i + 2])
                 /\ IsCont(b[i + 3])
                 /\ (b1 = 240 => b[i + 1] >= 144)
                 /\ (b1 = 244 => b[i + 1] <= 143)
              THEN utf8_decode_from(b, i + 4,
                       Append(out, (b1 - 240) * 262144
                                   + (b[i + 1] - 128) * 4096
                                   + (b[i + 2] - 128) * 64
                                   + (b[i + 3] - 128)))
              ELSE Raise("UnicodeDecodeError")
         ELSE Raise("UnicodeDecodeError")

utf8_decode(b) == utf8_decode_from(b, 1, <<>>)

\* str.encode('utf-8') of text without surrogates
RECURSIVE utf8_encode(_)
utf8_encode(t) ==
    IF Len(t) = 0 THEN <<>>
    ELSE LET c == t[1] IN
         (IF c < 128 THEN <<c>>
          ELSE IF c < 2048 THEN <<192 + (c \div 64), 128 + (c % 64)>>
          ELSE IF c < 65536
          THEN <<224 + (c \div 4096), 128 + ((c \div 64) % 64), 128 + (c % 64)>>
          ELSE <<240 + (c \div 262144), 128 + ((c \div 4096) % 64),
                 128 + ((c \div 64) % 64), 128 + (c % 64)>>)
         \o utf8_encode(Tail(t))

\* ------------------------------------------------------------ key derivation
\* HMAC pads a key shorter than its block with zero bytes
hmac_key(pw) == pw \o Repeat(0, HMAC_BLOCK - Len(pw))

\* a digest of a byte string, computed over halves
RECURSIVE Digest(_, _, _)
Digest(k, lo, hi) ==
    IF lo > hi THEN 0
    ELSE IF lo = hi THEN ((lo * lo + 1) * k[lo]) % 256
    ELSE LET mid == (lo + hi) \div 2 IN
         (Digest(k, lo, mid) + Digest(k, mid + 1, hi)) % 256

\* derive_key(password, salt): KEY_LENGTH bytes, a function of the HMAC key,
\* the salt and the iteration count only
derive_key(pw, slt) ==
    LET h == Digest(hmac_key(utf8_encode(pw)), 1, HMAC_BLOCK) IN
    [i \in 1..KEY_LENGTH |->
        (h * (2 * i + 1) + 3 * slt[((i - 1) % Len(slt)) + 1]
           + ITERATION_COUNT + i) % 256]

\* ------------------------------------------------------------ AES-CBC
\* the keyed block permutation, byte j of a block (1-based), and its inverse
BlockEnc(k, j, x) == (x + k[j] + 2 * k[j + BLOCK_SIZE]) % 256
BlockDec(k, j, y) == (y - k[j] - 2 * k[j + BLOCK_SIZE]) % 256
\* the chaining combination of a block byte with the previous cipher byte
Chain(x, c) == (x + c) % 256
Unchain(x, c) == (x - c) % 256

\* byte i of the block before the one byte i is in: the IV for block one
PrevByte(data, v, i) == IF i <= BLOCK_SIZE THEN v[i] ELSE data[i - BLOCK_SIZE]
Pos(i) == ((i - 1) % BLOCK_SIZE) + 1

\* variant: a trailing partial block is dropped instead of refused
cbc_decrypt_whole_blocks(k, v, data) ==
    Ok([i \in 1..(BLOCK_SIZE * (Len(data) \div BLOCK_SIZE)) |->
          Unchain(BlockDec(k, Pos(i), data[i]), PrevByte(data, v, i))])

\* AES.new(key, AES.MODE_CBC, iv).decrypt(data)
cbc_decrypt(k, v, data) ==
    IF Len(data) % BLOCK_SIZE # 0
    THEN Raise("ValueError:alignment")
    ELSE Ok([i \in 1..Len(data) |->
               Unchain(BlockDec(k, Pos(i), data[i]), PrevByte(data, v, i))])

\* the producing side: AES-CBC encryption of block-aligned data, block by
\* block from block number blk on, prev the cipher block before it
RECURSIVE cbc_encrypt_blocks(_, _, _, _)
cbc_encrypt_blocks(k, prev, data, blk) ==
    IF blk * BLOCK_SIZE > Len(data) THEN <<>>
    ELSE LET cb == [j \in 1..BLOCK_SIZE |->
                      BlockEnc(k, j,
                          Chain(data[(blk - 1) * BLOCK_SIZE + j], prev[j]))]
         IN cb \o cbc_encrypt_blocks(k, cb, data, blk + 1)

cbc_encrypt(k, v, data) == cbc_encrypt_blocks(k, v, data, 1)

\* PKCS#7 padding of the producing side
pkcs7_pad(b) ==
    LET p == BLOCK_SIZE - (Len(b) % BLOCK_SIZE) IN b \o Repeat(p, p)

\* ------------------------------------------------------------ decrypt
\* variant: the IV read from the start of the container
IvOf_from_start(comb) == Slice(comb, 0, IV_LENGTH)

\* variant: only the salt is required
TooShort_salt_only(comb) == Len(comb) < SALT_LENGTH

\* the three regions of the decoded container
SaltOf(comb) == Slice(comb, 0, SALT_LENGTH)
IvOf(comb) == Slice(comb, SALT_LENGTH, SALT_LENGTH + IV_LENGTH)
EncryptedOf(comb) == SliceFrom(comb, SALT_LENGTH + IV_LENGTH)

\* the length check of the decoded container
TooShort(comb) == Len(comb) < SALT_LENGTH + IV_LENGTH

\* AES.new(key, AES.MODE_CBC, iv) followed by cipher.decrypt(encrypted)
aes_cbc_decrypt(k, v, data) ==
    IF Len(v) # BLOCK_SIZE THEN Raise("ValueError:iv")
    ELSE cbc_decrypt(k, v, data)

\* variant: the padding length is checked against the buffer
remove_padding_range_checked(buf) ==
    IF Len(buf) = 0 THEN Raise("IndexError")
    ELSE LET padding_length == buf[Len(buf)] IN
         IF padding_length = 0 \/ padding_length > Len(buf)
         THEN Raise("ValueError:padding")
         ELSE Ok(Slice(buf, 0, Len(buf) - padding_length))

\* variant: strict PKCS#7, every padding byte checked
remove_padding_strict(buf) ==
    IF Len(buf) = 0 THEN Raise("IndexError")
    ELSE LET padding_length == buf[Len(buf)] IN
         IF padding_length = 0 THEN Ok(<<>>)
         ELSE IF padding_length > Len(buf) THEN Ok(<<>>)
         ELSE IF \/ padding_length > BLOCK_SIZE
                 \/ \E i \in (Len(buf) - padding_length + 1)..Len(buf) :
                       buf[i] # padding_length
         THEN Raise("ValueError:padding")
         ELSE Ok(Slice(buf, 0, Len(buf) - padding_length))

\* variant: truncation to len - padding_length, so that 0 removes nothing
remove_padding_by_length(buf) ==
    IF Len(buf) = 0 THEN Raise("IndexError")
    ELSE LET padding_length == buf[Len(buf)] IN
         IF padding_length > Len(buf) THEN Ok(<<>>)
         ELSE Ok(Slice(buf, 0, Len(buf) - padding_length))

\* padding_length = decrypted_data[-1]; decrypted_data[:-padding_length]
\* Indexing an empty buffer raises IndexError.  The slice s[:-p] keeps the
\* first len(s) - p bytes when 1 <= p <= len(s), nothing when p > len(s),
\* and s[:-0] is s[:0], nothing again.
remove_padding(buf) ==
    IF Len(buf) = 0 THEN Raise("IndexError")
    ELSE LET padding_length == buf[Len(buf)] IN
         IF padding_length = 0 THEN Ok(<<>>)
         ELSE IF padding_length > Len(buf) THEN Ok(<<>>)
         ELSE Ok(Slice(buf, 0, Len(buf) - padding_length))

\* ------------------------------------------------------------ envelope
Digit(ch) == ch >= 52 /\ ch <= 61
DigitZero == 52
LetterE == {4, 30}
PlusSign == 62

\* str.strip() on text whose only whitespace is WHITESPACE
strip(t) ==
    LET keep == {i \in 1..Len(t) : t[i] # WHITESPACE} IN
    IF keep = {} THEN <<>>
    ELSE SubSeq(t, CHOOSE i \in keep : \A j \in keep : i <= j,
                   CHOOSE i \in keep : \A j \in keep : i >= j)

AllDigits(t) == Len(t) >= 1 /\ \A i \in 1..Len(t) : Digit(t[i])

\* a JSON integer: no leading zero
IsJsonInt(t) == AllDigits(t) /\ (Len(t) > 1 => t[1] # DigitZero)

\* a JSON number written with characters of the Base64 alphabet only:
\* an integer, optionally followed by e or E, an optional + and digits
IsJsonNumber(t) ==
    \/ IsJsonInt(t)
    \/ \E i \in 1..Len(t) :
         /\ t[i] \in LetterE
         /\ IsJsonInt(SubSeq(t, 1, i - 1))
         /\ \/ AllDigits(SubSeq(t, i + 1, Len(t)))
            \/ /\ i < Len(t)
               /\ t[i + 1] = PlusSign
               /\ AllDigits(SubSeq(t, i + 2, Len(t)))

\* null, true, false, NaN, Infinity as Base64 character codes
JsonWords ==
    { <<39, 46, 37, 37>>, <<45, 43, 46, 30>>, <<31, 26, 37, 44, 30>>,
      <<13, 26, 13>>, <<8, 39, 31, 34, 39, 34, 45, 50>> }

\* json.loads of the file content.  A file holding a JSON object parses to
\* a dict.  Raw text parses only if, stripped, it is a JSON scalar.
json_loads(content) ==
    IF content.kind = "object"
    THEN [ok |-> TRUE, type |-> "dict", members |-> content.members]
    ELSE IF IsJsonNumber(strip(content.text)) \/ strip(content.text) \in JsonWords
    THEN [ok |-> TRUE, type |-> "scalar", members |-> <<>>]
    ELSE [ok |-> FALSE, type |-> "none", members |-> <<>>]

\* 'k' in d and d['k'] for a dict given as its members, the last one winning
HasKey(members, k) == \E i \in 1..Len(members) : members[i][1] = k
GetKey(members, k) ==
    LET at == {i \in 1..Len(members) : members[i][1] = k} IN
    members[CHOOSE i \in at : \A j \in at : i >= j][2]

\* lines 81-97: the text handed to decrypt, or the exception raised
extract(content) ==
    LET j == json_loads(content) IN
    IF ~j.ok THEN Ok(strip(content.text))
    ELSE IF j.type # "dict" THEN Raise("TypeError")
    ELSE IF HasKey(j.members, "data") THEN Ok(GetKey(j.members, "data"))
    ELSE IF HasKey(j.members, "f") THEN Ok(GetKey(j.members, "f"))
    ELSE Raise("ValueError:nofield")

\* ------------------------------------------------------------ inputs
\* passphrases: "a", "a" followed by NUL, "#" and "w"
Passwords == { <<97>>, <<97, 0>>, <<35>>, <<119>> }

Salts == { Repeat(1, SALT_LENGTH), [i \in 1..SALT_LENGTH |-> (7 * i) % 256] }

InitVector == Repeat(2, IV_LENGTH)

\* plaintexts: "", "[]", e-acute, the euro sign, and runs of "a" that fill
\* whole blocks
Plaintexts ==
    { <<>>, <<91, 93>>, <<233>>, <<8364, 93>> }
      \cup { Repeat(97, BLOCK_SIZE * n) : n \in 1..(MaxBlocks - 1) }

\* last bytes of a decrypted buffer of nb blocks
LastBytes(nb) ==
    { 0, 1, BLOCK_SIZE - 1, BLOCK_SIZE, BLOCK_SIZE + 1, BLOCK_SIZE * nb,
      BLOCK_SIZE * nb + 1, 255 }

\* block-aligned buffers with any last byte: "A"s, or bytes that are not
\* UTF-8, before it
Buffers ==
    { Repeat(fill, BLOCK_SIZE * nb - 1) \o <<last>> :
        nb \in 1..MaxBlocks, fill \in {65, 200}, last \in 0..255 }

RawBuffers ==
    { b \in Buffers : b[Len(b)] \in LastBytes(Len(b) \div BLOCK_SIZE) }

\* the producing side: salt || iv || AES-CBC(buf) under the key of (pw, salt)
container(buf, pw, slt, v) ==
    slt \o v \o cbc_encrypt(derive_key(pw, slt), v, buf)

\* lengths a container is cut to (or lengthened to, by repeating its tail)
CutLengths == { 0, 10, 47, 48, 49, 63, 65 }

NoOrigin ==
    [kind |-> "text", P |-> <<>>, W |-> <<>>, salt |-> <<>>, buf |-> <<>>,
     text |-> <<>>]

\* how the Base64 text of a backup came to be:
\*   built   Base64 of a container of the PKCS#7-padded UTF-8 of P under W
\*   buffer  Base64 of a container of the unpadded buffer buf under W
\*   cut     a built container cut (or stretched) to some length
\*   text    some other Base64 text
Origins ==
    { [NoOrigin EXCEPT !.kind = "built", !.P = P, !.W = W, !.salt = slt,
          !.buf = pkcs7_pad(utf8_encode(P)),
          !.text = b64encode(container(pkcs7_pad(utf8_encode(P)), W, slt,
                                       InitVector))] :
        P \in Plaintexts, W \in Passwords, slt \in Salts }
    \cup
    { [NoOrigin EXCEPT !.kind = "buffer", !.W = <<97>>,
          !.salt = Repeat(1, SALT_LENGTH), !.buf = b,
          !.text = b64encode(container(b, <<97>>, Repeat(1, SALT_LENGTH),
                                       InitVector))] :
        b \in RawBuffers }
    \cup
    { [NoOrigin EXCEPT !.kind = "cut",
          !.text = b64encode(Slice(
              container(pkcs7_pad(<<91, 93>>), <<97>>, Repeat(1, SALT_LENGTH),
                        InitVector)
                \o Repeat(9, BLOCK_SIZE), 0, n))] :
        n \in CutLengths }
    \cup
    { [NoOrigin EXCEPT !.text = t] :
        t \in { <<>>,
                Repeat(53, 64),
                Repeat(53, 128),
                Repeat(53, 63),
                <<53, 30, 62>> \o Repeat(54, 61),
                <<39, 46, 37, 37>>,
                Repeat(26, 64) } }

\* the backup file on disk: a JSON object, raw text, or no file at all
ObjectFile(members) == [kind |-> "object", members |-> members, text |-> <<>>]
TextFile(t) == [kind |-> "text", members |-> <<>>, text |-> t]
MissingFile == [kind |-> "missing", members |-> <<>>, text |-> <<>>]

Forms == { "data", "f", "raw", "raw_newline", "data_and_f", "other" }

Envelope(form, t) ==
    CASE form = "data" -> ObjectFile(<< <<"data", t>> >>)
      [] form = "f" -> ObjectFile(<< <<"f", t>> >>)
      [] form = "raw" -> TextFile(t)
      [] form = "raw_newline" -> TextFile(t \o <<WHITESPACE>>)
      [] form = "data_and_f" ->
            ObjectFile(<< <<"f", Repeat(26, 4)>>, <<"data", t>> >>)
      [] OTHER -> ObjectFile(<< <<"v", t>> >>)

\* ------------------------------------------------------------ state
VARIABLES
    origin,          \* how the backup's Base64 text was produced
    form,            \* the envelope the backup file wraps it in
    backup_file,     \* the content of the file at the backup path
    password,        \* the passphrase given to main
    pc,              \* the statement main is at
    encrypted_data,  \* main: the text extracted from the envelope
    combined,        \* decrypt: the Base64-decoded container
    key,             \* decrypt: the derived key
    decrypted_data,  \* decrypt: the buffer, before and after truncation
    decrypted_json,  \* main: the text decrypt returned
    exc,             \* the exception raised, "none" if none
    output_file,     \* "absent" or "written"
    exit_status,     \* -1 while running, then 0 or 1
    trace            \* the statements executed so far, in order

vars ==
    <<origin, form, backup_file, password, pc, encrypted_data, combined, key,
      decrypted_data, decrypted_json, exc, output_file, exit_status, trace>>

Init ==
    /\ origin \in Origins
    /\ form \in Forms \cup {"missing"}
    /\ (form = "missing") => (origin = NoOrigin)
    /\ backup_file =
         IF form = "missing" THEN MissingFile ELSE Envelope(form, origin.text)
    /\ password \in Passwords
    /\ pc = "read"
    /\ encrypted_data = <<>>
    /\ combined = <<>>
    /\ key = <<>>
    /\ decrypted_data = <<>>
    /\ decrypted_json = <<>>
    /\ exc = "none"
    /\ output_file = "absent"
    /\ exit_status = -1
    /\ trace = <<>>

\* ------------------------------------------------------------ main
\* an exception leaves the try block for the handler at line 142
Raised(step, e) ==
    /\ exc' = e
    /\ pc' = "except"
    /\ trace' = Append(trace, step)

Done(step, next) ==
    /\ pc' = next
    /\ trace' = Append(trace, step)
    /\ exc' = exc

\* lines 73-74: open and read the backup file
ReadBackup ==
    /\ pc = "read"
    /\ IF backup_file.kind = "missing"
       THEN Raised("read", "FileNotFoundError")
       ELSE Done("read", "parse")
    /\ UNCHANGED <<origin, form, backup_file, password, encrypted_data,
                   combined, key, decrypted_data, decrypted_json,
                   output_file, exit_status>>

\* lines 81-97: take the Base64 text out of its envelope
ParseEnvelope ==
    /\ pc = "parse"
    /\ LET r == extract(backup_file) IN
       IF r.ok
       THEN /\ encrypted_data' = r.val
            /\ Done("parse", "b64decode")
       ELSE /\ encrypted_data' = encrypted_data
            /\ Raised("parse", r.err)
    /\ UNCHANGED <<origin, form, backup_file, password, combined, key,
                   decrypted_data, decrypted_json, output_file, exit_status>>

\* line 101 and line 35: decrypt is called and decodes the Base64 text
DecryptDecode ==
    /\ pc = "b64decode"
    /\ LET r == b64decode(encrypted_data) IN
       IF r.ok
       THEN /\ combined' = r.val
            /\ Done("b64decode", "check_len")
       ELSE /\ combined' = combined
            /\ Raised("b64decode", r.err)
    /\ UNCHANGED <<origin, form, backup_file, password, encrypted_data, key,
                   decrypted_data, decrypted_json, output_file, exit_status>>

\* lines 37-38: the container must hold a salt and an IV
DecryptCheckLen ==
    /\ pc = "check_len"
    /\ IF TooShort(combined)
       THEN Raised("check_len", "ValueError:format")
       ELSE Done("check_len", "derive_key")
    /\ UNCHANGED <<origin, form, backup_file, password, encrypted_data,
                   combined, key, decrypted_data, decrypted_json,
                   output_file, exit_status>>

\* lines 41-46: slice the container and derive the key from the salt
DecryptDeriveKey ==
    /\ pc = "derive_key"
    /\ key' = derive_key(password, SaltOf(combined))
    /\ Done("derive_key", "aes")
    /\ UNCHANGED <<origin, form, backup_file, password, encrypted_data,
                   combined, decrypted_data, decrypted_json, output_file,
                   exit_status>>

\* lines 49-50: AES-CBC decryption of the ciphertext region
DecryptCipher ==
    /\ pc = "aes"
    /\ LET r == aes_cbc_decrypt(key, IvOf(combined), EncryptedOf(combined)) IN
       IF r.ok
       THEN /\ decrypted_data' = r.val
            /\ Done("aes", "unpad")
       ELSE /\ decrypted_data' = decrypted_data
            /\ Raised("aes", r.err)
    /\ UNCHANGED <<origin, form, backup_file, password, encrypted_data,
                   combined, key, decrypted_json, output_file, exit_status>>

\* lines 53-54: truncate by the last byte
DecryptUnpad ==
    /\ pc = "unpad"
    /\ LET r == remove_padding(decrypted_data) IN
       IF r.ok
       THEN /\ decrypted_data' = r.val
            /\ Done("unpad", "utf8")
       ELSE /\ decrypted_data' = decrypted_data
            /\ Raised("unpad", r.err)
    /\ UNCHANGED <<origin, form, backup_file, password, encrypted_data,
                   combined, key, decrypted_json, output_file, exit_status>>

\* line 56 and line 101: decode as UTF-8 and return the text to main
DecryptReturn ==
    /\ pc = "utf8"
    /\ LET r == utf8_decode(decrypted_data) IN
       IF r.ok
       THEN /\ decrypted_json' = r.val
            /\ Done("utf8", "write")
       ELSE /\ decrypted_json' = decrypted_json
            /\ Raised("utf8", r.err)
    /\ UNCHANGED <<origin, form, backup_file, password, encrypted_data,
                   combined, key, decrypted_data, output_file, exit_status>>

\* lines 105-140: the output file is opened and written; main returns
WriteOutput ==
    /\ pc = "write"
    /\ output_file' = "written"
    /\ exit_status' = 0
    /\ Done("write", "exit")
    /\ UNCHANGED <<origin, form, backup_file, password, encrypted_data,
                   combined, key, decrypted_data, decrypted_json>>

\* line 116: the output file cannot be opened
WriteFails ==
    /\ pc = "write"
    /\ Raised("write", "OSError")
    /\ UNCHANGED <<origin, form, backup_file, password, encrypted_data,
                   combined, key, decrypted_data, decrypted_json,
                   output_file, exit_status>>

\* variant: the handler reports the error and carries on to the output
ExceptHandler_carries_on ==
    /\ pc = "except"
    /\ pc' = "write"
    /\ trace' = Append(trace, "except")
    /\ UNCHANGED <<origin, form, backup_file, password, encrypted_data,
                   combined, key, decrypted_data, decrypted_json, exc,
                   output_file, exit_status>>

\* lines 142-148: report the error and exit with status 1
ExceptHandler ==
    /\ pc = "except"
    /\ exit_status' = 1
    /\ pc' = "exit"
    /\ trace' = Append(trace, "except")
    /\ UNCHANGED <<origin, form, backup_file, password, encrypted_data,
                   combined, key, decrypted_data, decrypted_json, exc,
                   output_file>>

Next ==
    \/ ReadBackup
    \/ ParseEnvelope
    \/ DecryptDecode
    \/ DecryptCheckLen
    \/ DecryptDeriveKey
    \/ DecryptCipher
    \/ DecryptUnpad
    \/ DecryptReturn
    \/ WriteOutput
    \/ WriteFails
    \/ ExceptHandler

Spec == Init /\ [][Next]_vars

\* ------------------------------------------------------------ observations
Ran(step) == \E i \in 1..Len(trace) : trace[i] = step

\* the statement that raised, "none" if nothing was raised
RaisedAt ==
    LET handled == {i \in 1..Len(trace) : trace[i] = "except"} IN
    IF exc = "none" THEN "none"
    ELSE IF handled = {} THEN trace[Len(trace)]
    ELSE trace[(CHOOSE i \in handled : \A j \in handled : i <= j) - 1]

\* the statements of decrypt
DecryptSteps ==
    {"b64decode", "check_len", "derive_key", "aes", "unpad", "utf8"}

\* decrypt raised
DecryptFailed == RaisedAt \in DecryptSteps

\* decrypt was called with the Base64 text the backup was produced as
CalledOnOrigin == Ran("b64decode") /\ encrypted_data = origin.text

\* decrypt returned its text to main
DecryptReturned == Ran("utf8") /\ RaisedAt # "utf8"

\* the buffer AES-CBC decryption produced, before truncation
Buffer == cbc_decrypt(key, IvOf(combined), EncryptedOf(combined)).val

\* decrypt was called on a container built for origin.P under origin.W
OnBuilt == origin.kind = "built" /\ CalledOnOrigin

SameKey ==
    derive_key(password, origin.salt) = derive_key(origin.W, origin.salt)

\* the last byte of the decrypted buffer
LastByte == Buffer[Len(Buffer)]

\* ------------------------------------------------------------ claims

\* C1: decrypt of Base64(salt || iv || AES-CBC(PKCS#7(UTF-8(P)))) built
\* under passphrase W, called with W, raises nothing and returns exactly P.
C1_RoundTrip ==
    (OnBuilt /\ password = origin.W)
        => /\ ~DecryptFailed
           /\ DecryptReturned => decrypted_json = origin.P

C1_Witness ==
    /\ OnBuilt
    /\ password = origin.W
    /\ DecryptReturned
    /\ origin.P = <<8364, 93>>
    /\ decrypted_json = origin.P

C3_Malformed ==
    (Ran("b64decode") /\ exc # "binascii.Error"
       /\ Len(combined) < SALT_LENGTH + IV_LENGTH)
        => /\ ~Ran("derive_key")
           /\ ~Ran("aes")
           /\ Ran("check_len") => (exc = "ValueError:format"
                                     /\ RaisedAt = "check_len")

C3_Witness ==
    /\ Ran("check_len")
    /\ Len(combined) = SALT_LENGTH + IV_LENGTH - 1
    /\ exc = "ValueError:format"
    /\ pc = "exit"

\* C4 as stated: a container of exactly SALT_LENGTH + IV_LENGTH bytes passes
\* the length check, and decrypt ends either in the ciphertext-length error
\* or by returning the empty plaintext.
C4_Original ==
    (Ran("check_len") /\ Len(combined) = SALT_LENGTH + IV_LENGTH
       /\ (DecryptFailed \/ DecryptReturned))
        => /\ exc # "ValueError:format"
           /\ \/ exc = "ValueError:alignment"
              \/ DecryptReturned /\ decrypted_json = <<>>

\* C5 as stated: when the last byte of the decrypted buffer exceeds the
\* buffer's length, decrypt fails at the padding step and returns nothing.
C5_Original ==
    (Ran("unpad") /\ Len(Buffer) >= 1 /\ LastByte > Len(Buffer))
        => /\ RaisedAt = "unpad"
           /\ ~DecryptReturned

\* C6: when the ciphertext region is not a multiple of the block size,
\* decrypt fails with the alignment error at the AES step; padding removal
\* and UTF-8 decoding are not reached and no plaintext is returned.
C6_Alignment ==
    (Ran("aes") /\ Len(EncryptedOf(combined)) % BLOCK_SIZE # 0)
        => /\ exc = "ValueError:alignment"
           /\ RaisedAt = "aes"
           /\ ~Ran("unpad")
           /\ ~Ran("utf8")
           /\ ~DecryptReturned
           /\ decrypted_json = <<>>

C6_Witness ==
    /\ Ran("aes")
    /\ Len(combined) = SALT_LENGTH + IV_LENGTH + 1
    /\ exc = "ValueError:alignment"
    /\ pc = "exit"

\* an exception of reading, extraction or decrypt
FailedBeforeWrite == RaisedAt \in {"read", "parse"} \/ DecryptFailed

\* C7: once reading, extraction or decrypt has raised, main only runs its
\* handler: the output file is never opened or written, decrypt is not
\* called again, and the exit status is 1.  The output file is written only
\* after decrypt has returned.
C7_AbortOnError ==
    /\ FailedBeforeWrite
         => /\ pc \in {"except", "exit"}
            /\ output_file = "absent"
            /\ ~Ran("write")
            /\ Cardinality({i \in 1..Len(trace) : trace[i] = "b64decode"}) <= 1
            /\ pc = "exit" => (exit_status = 1
                                /\ trace[Len(trace)] = "except"
                                /\ trace[Len(trace) - 1] = RaisedAt)
    /\ output_file = "written" => (DecryptReturned /\ exc = "none")

C7_Witness ==
    /\ exc = "UnicodeDecodeError"
    /\ pc = "exit"
    /\ exit_status = 1
    /\ output_file = "absent"

\* the Base64 text the backup was produced as decodes to a whole container
IsContainerText ==
    /\ b64decode(origin.text).ok
    /\ ~TooShort(b64decode(origin.text).val)

\* C8 as stated: with the Base64 text B of a container in the 'data' field,
\* in the 'f' field, or as the whole file, main hands B to decrypt.
C8_Original ==
    (form \in {"data", "f", "raw"} /\ IsContainerText /\ Ran("parse"))
        => /\ RaisedAt # "parse"
           /\ encrypted_data = origin.text

\* C9: when the last byte p of the decrypted buffer of length n has
\* 1 <= p <= n, the padding step raises nothing and leaves exactly the
\* first n - p bytes for UTF-8 decoding, whatever the trailing bytes are.
C9_LaxPadding ==
    (Ran("unpad") /\ Len(Buffer) >= 1 /\ LastByte >= 1
       /\ LastByte <= Len(Buffer))
        => /\ RaisedAt # "unpad"
           /\ decrypted_data = SubSeq(Buffer, 1, Len(Buffer) - LastByte)

C9_Witness ==
    /\ Ran("unpad")
    /\ Len(Buffer) = 2 * BLOCK_SIZE
    /\ LastByte = BLOCK_SIZE + 1
    /\ Buffer[Len(Buffer) - 1] # LastByte
    /\ decrypted_data = SubSeq(Buffer, 1, BLOCK_SIZE - 1)
    /\ DecryptReturned

\* C10: when the decrypted buffer is not empty and its last byte is 0, the
\* padding step raises nothing and removes the whole buffer, and decrypt
\* returns the empty string.
C10_ZeroPadByte ==
    (Ran("unpad") /\ Len(Buffer) >= 1 /\ LastByte = 0)
        => /\ RaisedAt # "unpad"
           /\ decrypted_data = <<>>
           /\ Ran("utf8") => (DecryptReturned /\ decrypted_json = <<>>)

C10_Witness ==
    /\ Ran("utf8")
    /\ Len(Buffer) = 2 * BLOCK_SIZE
    /\ LastByte = 0
    /\ Buffer[1] = 200
    /\ DecryptReturned
    /\ decrypted_json = <<>>

====
